---- MODULE Spec2Model ----
(***************************************************************************)
(* PushoverService (src/src/pushover.ts): the notification ledger mirrored  *)
(* to a YAML file, the gateway round-trip of createNotification, and the    *)
(* response protocol of send / handleErrors / sendNotification.             *)
(*                                                                          *)
(* One Node.js process, one event loop: every action below is one          *)
(* synchronous run-to-completion section of the code.  A createNotification *)
(* call on an enabled client is split at its `await`: the part before it    *)
(* (createNotification) and the part run when the gateway exchange ends     *)
(* (GatewayResponds).                                                       *)
(***************************************************************************)
EXTENDS Integers, Sequences, FiniteSets, Bags, TLC

\* ---------------------------------------------------------------- bounds
StartClock == 998       \* Date.now() (ms) when the model starts
MaxTicks == 1           \* how far the clock may advance
MaxCalls == 2           \* createNotification calls issued over the run
SoloCalls == 1          \* the same, in the runs of SpecSolo
MaxRefreshes == 2       \* refreshes of the sound catalog over the run

MaxClock == StartClock + MaxTicks
Calls == 1..MaxCalls
Titles == {"Backup Complete"}
Messages == {"Nightly backup succeeded"}
Recipients == {"ops-team", "dev-team"}
Credentials == {"", "key"}

VARIABLES
  userKey,        \* config.userKey
  apiToken,       \* config.apiToken
  enabled,        \* this.enabled
  alive,          \* the process is running
  clock,          \* the wall clock, in ms
  notifications,  \* this.notifications, the in-memory ledger
  file,           \* content of this.dataFile
  calls,          \* the createNotification calls and where each stands
  netRequests,    \* HTTP requests issued to the gateway
  lastOp,         \* the last completed ledger operation and what it returned
  debug,          \* this.debug
  onerror,        \* an error handler is configured (this.onerror)
  httpOptions,    \* this.httpOptions
  client,         \* a direct call of send or sendNotification and where it stands
  logged,         \* the request string the debug path printed last
  wire,           \* the request send made last: how, to which host, with what body
  sounds,         \* this.sounds, the sound catalog
  responses,      \* the HTTP responses sent to each POST /notifications request
  lastReply       \* the last request of another route and the responses sent to it

vars == <<userKey, apiToken, enabled, alive, clock, notifications, file,
          calls, netRequests, lastOp, debug, onerror, httpOptions, client, logged,
          wire, sounds, responses, lastReply>>

\* the options the client was constructed with
opts == <<debug, onerror, httpOptions>>

\* what the ledger operations leave alone
apiVars == <<opts, client, logged, wire, sounds, responses, lastReply>>

\* ------------------------------------------------------- optional values
Absent == <<>>
Present(x) == <<x>>
IsPresent(o) == o # <<>>
null == <<>>

\* --------------------------------------------------------- conversions
RECURSIVE DecimalString(_)
\* Number.prototype.toString(): the decimal digits, most significant first
DecimalString(n) ==
  IF n < 10 THEN <<n>> ELSE Append(DecimalString(n \div 10), n % 10)

\* Date.prototype.toISOString(): "...:SS.mmmZ", seconds and milliseconds apart
toISOString(ms) == [sec |-> ms \div 1000, msec |-> ms % 1000]

\* new Date(iso).getTime()
getTime(iso) == iso.sec * 1000 + iso.msec

\* yaml.stringify of one record: its fields as key/value lines
DumpRecord(n) ==
  << <<"id", n.id>>, <<"title", n.title>>, <<"message", n.message>>,
     <<"recipient", n.recipient>>, <<"read", n.read>>,
     <<"createdAt", n.createdAt>>, <<"pushoverSent", n.pushoverSent>>,
     <<"pushoverReceipt", n.pushoverReceipt>> >>

\* mutant: the read flag is not restored from the file
ParseRecordUnread(e) ==
  [id |-> e[1][2], title |-> e[2][2], message |-> e[3][2],
   recipient |-> e[4][2], read |-> FALSE, createdAt |-> e[6][2],
   pushoverSent |-> e[7][2], pushoverReceipt |-> e[8][2]]

\* yaml.load of one entry of the sequence
ParseRecord(e) ==
  [id |-> e[1][2], title |-> e[2][2], message |-> e[3][2],
   recipient |-> e[4][2], read |-> e[5][2], createdAt |-> e[6][2],
   pushoverSent |-> e[7][2], pushoverReceipt |-> e[8][2]]

yamlStringify(ns) == [i \in 1..Len(ns) |-> DumpRecord(ns[i])]

\* What is at this.dataFile when it is no file holding a YAML sequence:
\* nothing, a directory, or a file whose text yaml.load cannot read as a
\* sequence (no YAML, a scalar or a mapping, or a file that cannot be read).
Missing == << <<"ENOENT">> >>
Directory == << <<"EISDIR">> >>
NotASequence == << <<"not a sequence">> >>

\* loadNotifications: [] when the file is missing, when yaml.load throws and
\* when what it returns is no array
loadNotifications(f) ==
  IF f \in {Missing, Directory, NotASequence} THEN <<>>
  ELSE [i \in 1..Len(f) |-> ParseRecord(f[i])]

\* mutant: an existing file is initialized again
ensureDataFileExistsResets(f) ==
  IF f = Directory THEN {[throws |-> TRUE, file |-> f]}
  ELSE {[throws |-> FALSE, file |-> yamlStringify(<<>>)]}

\* ensureDataFileExists: whether it throws and what is at the path afterwards.
\* The write that initializes a missing file may fail.
ensureDataFileExists(f) ==
  IF f = Directory THEN {[throws |-> TRUE, file |-> f]}
  ELSE IF f = Missing
       THEN {[throws |-> FALSE, file |-> yamlStringify(<<>>)],
             [throws |-> TRUE, file |-> f]}
       ELSE {[throws |-> FALSE, file |-> f]}

\* mutant: an error of the initialization escapes the constructor
constructorFailFast(f) ==
  { [raises |-> e.throws, file |-> e.file, notifications |-> loadNotifications(e.file)] :
      e \in ensureDataFileExists(f) }

\* The constructor, lines 83-89: an error of ensureDataFileExists is logged
\* and the ledger starts empty.
constructor(f) ==
  { [raises |-> FALSE, file |-> e.file,
     notifications |-> IF e.throws THEN <<>> ELSE loadNotifications(e.file)] :
      e \in ensureDataFileExists(f) }

\* ------------------------------------------------------ gateway protocol
\* A response body: empty, not JSON, the JSON value null, or a JSON object
\* with an optional receipt and an optional errors array.
Body(kind, receipt, errors) == [kind |-> kind, receipt |-> receipt, errors |-> errors]
EmptyBody == Body("empty", Absent, Absent)
ObjectBodies ==
  { Body("object", r, Absent) : r \in {Absent, Present(""), Present("r1")} }
    \cup { Body("object", Absent, Present(e)) : e \in {<<>>, <<"invalid token">>} }
Bodies == {EmptyBody, Body("garbage", Absent, Absent), Body("null", Absent, Absent)}
            \cup ObjectBodies

\* What the gateway exchange ends with: a transport error or a response.
NoOutcome == [kind |-> "none", body |-> EmptyBody]
Outcomes == {[kind |-> "error", body |-> EmptyBody]}
              \cup {[kind |-> "response", body |-> b] : b \in Bodies}

\* JSON.parse(body) throws
ParseThrows(body) == body.kind \in {"empty", "garbage"}

\* handleErrors(data): "return" (nothing to report, or a parse error and no
\* handler to give it to), "onerror" (delegated) or "throw"
handleErrors(body, hasOnerror) ==
  IF ParseThrows(body) THEN (IF hasOnerror THEN "onerror" ELSE "return")
  ELSE IF body.kind = "object" /\ IsPresent(body.errors)
       THEN (IF hasOnerror THEN "onerror" ELSE "throw")
       ELSE "return"

\* What handleErrors gives the handler (or throws): the parse error, or
\* parsed.errors[0], which is undefined for an empty array.
ErrorArg(body) ==
  IF ParseThrows(body) THEN Present("SyntaxError")
  ELSE IF body.errors[1] = <<>> THEN Absent
  ELSE Present(body.errors[1][1])

\* result.receipt || null
ReceiptOrNull(body) ==
  IF IsPresent(body.receipt) /\ body.receipt[1] # "" THEN body.receipt ELSE null

\* The callback sendNotification hands to send: how the promise settles.
SendCallback(outcome) ==
  IF outcome.kind = "error" THEN [settle |-> "reject", value |-> null]
  ELSE IF outcome.body.kind = "empty" THEN [settle |-> "resolve", value |-> null]
  ELSE IF outcome.body.kind \in {"garbage", "null"} THEN [settle |-> "reject", value |-> null]
  ELSE [settle |-> "resolve", value |-> ReceiptOrNull(outcome.body)]

\* send's response 'end' listener and error listener: the exception escapes
\* the listener ("uncaught") or the callback settles the promise.
SendCompletes(outcome) ==
  IF outcome.kind = "response" /\ handleErrors(outcome.body, onerror) = "throw"
  THEN [settle |-> "uncaught", value |-> null]
  ELSE SendCallback(outcome)

\* ------------------------------------------------------------- the ledger
\* mutant: one credential is enough to enable the client
EnabledOfEither(uk, tok) == uk # "" \/ tok # ""

\* the constructor's test: config.userKey && config.apiToken
EnabledOf(uk, tok) == uk # "" /\ tok # ""

\* mutant: a record is created already read
NewNotificationRead(now, later, title, message, recipient) ==
  [id |-> DecimalString(now), title |-> title, message |-> message,
   recipient |-> recipient, read |-> TRUE, createdAt |-> toISOString(later),
   pushoverSent |-> FALSE, pushoverReceipt |-> null]

\* the record createNotification builds, lines 419-426
NewNotification(now, later, title, message, recipient) ==
  [id |-> DecimalString(now), title |-> title, message |-> message,
   recipient |-> recipient, read |-> FALSE, createdAt |-> toISOString(later),
   pushoverSent |-> FALSE, pushoverReceipt |-> null]

\* mutant: the receipt is stored, the sent flag is not set
DeliveredReceiptOnly(n, receipt) == [n EXCEPT !.pushoverReceipt = receipt]

\* createNotification after the await resolved with a receipt
Delivered(n, receipt) ==
  [n EXCEPT !.pushoverSent = TRUE, !.pushoverReceipt = receipt]

\* Array.prototype.findIndex on id; 0 when there is none
RECURSIVE FindFrom(_, _, _)
FindFrom(ns, id, i) ==
  IF i > Len(ns) THEN 0
  ELSE IF ns[i].id = id THEN i ELSE FindFrom(ns, id, i + 1)
findIndex(ns, id) == FindFrom(ns, id, 1)

getNotificationById(ns, id) ==
  IF findIndex(ns, id) = 0 THEN Absent ELSE Present(ns[findIndex(ns, id)])

\* .filter((n) => n.recipient === recipient)
RECURSIVE FilterRecipient(_, _)
FilterRecipient(ns, recipient) ==
  IF ns = <<>> THEN <<>>
  ELSE IF Head(ns).recipient = recipient
       THEN <<Head(ns)>> \o FilterRecipient(Tail(ns), recipient)
       ELSE FilterRecipient(Tail(ns), recipient)

\* mutant: the comparator with its operands swapped
CompareAscending(a, b) == getTime(a.createdAt) - getTime(b.createdAt)

\* the comparator of getNotifications: (a, b) => time(b) - time(a)
Compare(a, b) == getTime(b.createdAt) - getTime(a.createdAt)

\* Array.prototype.sort: stable, x goes behind every element the comparator
\* does not put after it
RECURSIVE InsertSorted(_, _)
InsertSorted(sorted, x) ==
  IF sorted = <<>> THEN <<x>>
  ELSE IF Compare(sorted[Len(sorted)], x) > 0
       THEN Append(InsertSorted(SubSeq(sorted, 1, Len(sorted) - 1), x), sorted[Len(sorted)])
       ELSE Append(sorted, x)

RECURSIVE Sort(_)
Sort(ns) ==
  IF ns = <<>> THEN <<>>
  ELSE InsertSorted(Sort(SubSeq(ns, 1, Len(ns) - 1)), ns[Len(ns)])

getNotifications(ns, recipient) == Sort(FilterRecipient(ns, recipient))

RemoveAt(ns, i) == [j \in 1..(Len(ns) - 1) |-> IF j < i THEN ns[j] ELSE ns[j + 1]]

\* The file is modelled by the entries its text holds; a text cut short by a
\* failed write holds none.
Truncated == <<>>

\* saveNotifications: what the file may hold afterwards.  writeFileSync
\* truncates the file when it opens it and then writes; when it throws, at the
\* open or at the write, the error is swallowed and the file is as it was or
\* cut short.  On a directory every write throws.
saveNotifications(ns, ok) ==
  IF file = Directory THEN {file}
  ELSE IF ok THEN {yamlStringify(ns)} ELSE {file, Truncated}

\* A completed ledger operation: the call (0 when it is no createNotification
\* call), the id it was about, whether the id was found, what became of the
\* file write ("none" when none was attempted) and the record returned.
\* again: the operation is a markRead that found its id right after a markRead
\* that found the same id.
Op(op, call, id, found, saved, ret) ==
  [op |-> op, call |-> call, id |-> id, found |-> found, saved |-> saved, ret |-> ret,
   again |-> op = "markRead" /\ found /\ lastOp.op = "markRead" /\ lastOp.found
             /\ lastOp.id = id]
NoOp ==
  [op |-> "none", call |-> 0, id |-> <<>>, found |-> FALSE, saved |-> "none",
   ret |-> Absent, again |-> FALSE]
SavedAs(ok) == IF ok THEN "ok" ELSE "failed"

IdleCall == [pc |-> "idle", n |-> Absent, outcome |-> NoOutcome]

\* the constructor of PushoverService
InitLedger ==
  /\ userKey \in Credentials
  /\ apiToken \in Credentials
  /\ enabled = EnabledOf(userKey, apiToken)
  /\ alive = TRUE
  /\ clock = StartClock
  /\ notifications = <<>>
  /\ file = yamlStringify(<<>>)
  /\ calls = [c \in Calls |-> IdleCall]
  /\ netRequests = 0
  /\ lastOp = NoOp

IdleClient ==
  [op |-> "none", pc |-> "idle", value |-> null, outcome |-> NoOutcome,
   reported |-> <<>>]

\* No request made yet.
NoWire ==
  [requester |-> "none", hostname |-> "", Host |-> Absent, written |-> FALSE,
   payload |-> <<>>, body |-> <<>>]

\* The catalog the constructor starts with, lines 59-81, cut to two of its
\* entries: the set of its <<name, description>> pairs.
DefaultSounds == {<<"pushover", "Pushover (default)">>, <<"magic", "Magic">>}

InitApi ==
  /\ client = IdleClient
  /\ logged = Absent
  /\ wire = NoWire
  /\ sounds = Present(DefaultSounds)
  /\ responses = [c \in Calls |-> <<>>]
  /\ lastReply = [route |-> "none", id |-> <<>>, sent |-> <<>>, list |-> <<>>]

\* PushoverService never assigns this.debug, this.onerror or this.httpOptions
Init ==
  InitLedger /\ InitApi /\ debug = FALSE /\ onerror = FALSE /\ httpOptions = Absent

\* What opts.httpOptions may be: undefined, or an object with or without a
\* protocol and a proxy URL.
Url(scheme, hostname, port) == [scheme |-> scheme, hostname |-> hostname, port |-> port]
Proxies == {Url("http", "proxy.local", "3128"), Url("https", "proxy.local", "3128")}
HttpOptions ==
  {Absent} \cup
  { Present([protocol |-> p, proxy |-> x]) :
      p \in {Absent, Present("http:")},
      x \in {Absent} \cup {Present(u) : u \in Proxies} }

\* The client of src/unnamed/part_003 takes debug, onerror and httpOptions from
\* its options.
InitClient ==
  /\ InitLedger /\ InitApi /\ debug \in BOOLEAN /\ onerror \in BOOLEAN
  /\ httpOptions \in HttpOptions

\* A record an earlier run of the service left in the file
PriorRecord ==
  NewNotification(StartClock - 1, StartClock - 1, "Backup Complete",
                  "Nightly backup succeeded", "ops-team")

\* What the service may find at this.dataFile when it is started
BootFiles ==
  {Missing, Directory, NotASequence, yamlStringify(<<>>),
   yamlStringify(<<PriorRecord>>)}

\* Before the service is started for the first time.
InitBoot ==
  /\ userKey \in Credentials
  /\ apiToken \in Credentials
  /\ enabled = EnabledOf(userKey, apiToken)
  /\ alive = FALSE
  /\ clock = StartClock
  /\ notifications = <<>>
  /\ file \in BootFiles
  /\ calls = [c \in Calls |-> IdleCall]
  /\ netRequests = 0
  /\ lastOp = NoOp
  /\ InitApi
  /\ debug = FALSE
  /\ onerror = FALSE
  /\ httpOptions = Absent

\* The ids Date.now().toString() can produce over the run
Ids == {DecimalString(t) : t \in StartClock..MaxClock}

\* this.isEnabled()
isEnabled(e) == e

\* mutant: the file is written before the record is pushed
CommitSavesFirst(c, n, outcome, ok) ==
  /\ notifications' = Append(notifications, n)
  /\ file' \in saveNotifications(notifications, ok)
  /\ calls' = [calls EXCEPT ![c] = [pc |-> "done", n |-> Present(n), outcome |-> outcome]]
  /\ lastOp' = Op("create", c, n.id, TRUE, SavedAs(ok), Present(n))

\* mutant: the record is pushed only when the file write succeeds
CommitRollsBack(c, n, outcome, ok) ==
  /\ notifications' = IF ok THEN Append(notifications, n) ELSE notifications
  /\ file' \in saveNotifications(notifications', ok)
  /\ calls' = [calls EXCEPT ![c] = [pc |-> "done", n |-> Present(n), outcome |-> outcome]]
  /\ lastOp' = Op("create", c, n.id, TRUE, SavedAs(ok), Present(n))

\* mutant: the record replaces the ledger the call did not see change
CommitOverwrites(c, n, outcome, ok) ==
  /\ notifications' = <<n>>
  /\ file' \in saveNotifications(notifications', ok)
  /\ calls' = [calls EXCEPT ![c] = [pc |-> "done", n |-> Present(n), outcome |-> outcome]]
  /\ lastOp' = Op("create", c, n.id, TRUE, SavedAs(ok), Present(n))

\* this.notifications.push(n); this.saveNotifications(); return n
Commit(c, n, outcome, ok) ==
  /\ notifications' = Append(notifications, n)
  /\ file' \in saveNotifications(notifications', ok)
  /\ calls' = [calls EXCEPT ![c] = [pc |-> "done", n |-> Present(n), outcome |-> outcome]]
  /\ lastOp' = Op("create", c, n.id, TRUE, SavedAs(ok), Present(n))

\* createNotification up to its await (or to its return when nothing is
\* awaited).  The clock is read twice, by Date.now() and by new Date(), and
\* may advance by d in between.  ok: whether the file write succeeds.
createNotification(c, title, message, recipient, d, ok) ==
  /\ alive
  /\ calls[c].pc = "idle"
  /\ \A k \in Calls : k < c => calls[k].pc # "idle"
  /\ clock + d <= MaxClock
  /\ clock' = clock + d
  /\ LET n == NewNotification(clock, clock + d, title, message, recipient) IN
     IF isEnabled(enabled)
     THEN IF ~enabled
          THEN \* sendNotification returns null without a request
               /\ Commit(c, Delivered(n, null), NoOutcome, ok)
               /\ UNCHANGED netRequests
          ELSE \* send() writes the request; the call is suspended
               /\ ok
               /\ netRequests' = netRequests + 1
               /\ calls' = [calls EXCEPT ![c] =
                              [pc |-> "awaiting", n |-> Present(n), outcome |-> NoOutcome]]
               /\ UNCHANGED <<notifications, file, lastOp>>
     ELSE /\ Commit(c, n, NoOutcome, ok)
          /\ UNCHANGED netRequests
  /\ UNCHANGED <<userKey, apiToken, enabled, alive>>

\* mutant: after a transport error the request is written once more
GatewayRespondsRetries(c, outcome, ok) ==
  /\ alive
  /\ calls[c].pc = "awaiting"
  /\ LET s == SendCompletes(outcome)
         n == calls[c].n[1]
     IN IF outcome.kind = "error"
        THEN /\ ok
             /\ netRequests' = netRequests + 1
             /\ UNCHANGED <<alive, calls, notifications, file, lastOp>>
        ELSE IF s.settle = "uncaught"
        THEN /\ ok
             /\ alive' = FALSE
             /\ calls' = [k \in Calls |->
                            IF k = c THEN [calls[c] EXCEPT !.pc = "uncaught", !.outcome = outcome]
                            ELSE IF calls[k].pc = "awaiting"
                                 THEN [calls[k] EXCEPT !.pc = "aborted"]
                                 ELSE calls[k]]
             /\ UNCHANGED <<notifications, file, lastOp, netRequests>>
        ELSE /\ Commit(c, IF s.settle = "resolve" THEN Delivered(n, s.value) ELSE n,
                       outcome, ok)
             /\ UNCHANGED <<alive, netRequests>>
  /\ UNCHANGED <<userKey, apiToken, enabled, clock>>

\* The gateway exchange of call c ends with outcome; the rest of
\* createNotification runs, unless the exception of handleErrors escapes the
\* response listener: then nothing catches it and the process dies.
GatewayResponds(c, outcome, ok) ==
  /\ alive
  /\ calls[c].pc = "awaiting"
  /\ LET s == SendCompletes(outcome)
         n == calls[c].n[1]
     IN IF s.settle = "uncaught"
        THEN /\ ok
             /\ alive' = FALSE
             /\ calls' = [k \in Calls |->
                            IF k = c THEN [calls[c] EXCEPT !.pc = "uncaught", !.outcome = outcome]
                            ELSE IF calls[k].pc = "awaiting"
                                 THEN [calls[k] EXCEPT !.pc = "aborted"]
                                 ELSE calls[k]]
             /\ UNCHANGED <<notifications, file, lastOp>>
        ELSE /\ Commit(c, IF s.settle = "resolve" THEN Delivered(n, s.value) ELSE n,
                       outcome, ok)
             /\ UNCHANGED alive
  /\ UNCHANGED <<userKey, apiToken, enabled, clock, netRequests>>

\* mutant: every record is marked read, not only the one found
markNotificationAsReadEvery(id, ok) ==
  /\ alive
  /\ LET i == findIndex(notifications, id) IN
     IF i # 0
     THEN /\ notifications' = [j \in 1..Len(notifications) |->
                                [notifications[j] EXCEPT !.read = TRUE]]
          /\ file' \in saveNotifications(notifications', ok)
          /\ lastOp' = Op("markRead", 0, id, TRUE, SavedAs(ok), Present(notifications'[i]))
     ELSE /\ ok
          /\ UNCHANGED <<notifications, file>>
          /\ lastOp' = Op("markRead", 0, id, FALSE, "none", Absent)
  /\ UNCHANGED <<userKey, apiToken, enabled, alive, clock, calls, netRequests>>

\* mutant: the flag is flipped instead of set
markNotificationAsReadToggles(id, ok) ==
  /\ alive
  /\ LET i == findIndex(notifications, id) IN
     IF i # 0
     THEN /\ notifications' = [notifications EXCEPT ![i].read = ~notifications[i].read]
          /\ file' \in saveNotifications(notifications', ok)
          /\ lastOp' = Op("markRead", 0, id, TRUE, SavedAs(ok), Present(notifications'[i]))
     ELSE /\ ok
          /\ UNCHANGED <<notifications, file>>
          /\ lastOp' = Op("markRead", 0, id, FALSE, "none", Absent)
  /\ UNCHANGED <<userKey, apiToken, enabled, alive, clock, calls, netRequests>>

\* mutant: markRead waits until no createNotification call is pending
markNotificationAsReadWaits(id, ok) ==
  /\ alive
  /\ \A c \in Calls : calls[c].pc # "awaiting"
  /\ LET i == findIndex(notifications, id) IN
     IF i # 0
     THEN /\ notifications' = [notifications EXCEPT ![i].read = TRUE]
          /\ file' \in saveNotifications(notifications', ok)
          /\ lastOp' = Op("markRead", 0, id, TRUE, SavedAs(ok), Present(notifications'[i]))
     ELSE /\ ok
          /\ UNCHANGED <<notifications, file>>
          /\ lastOp' = Op("markRead", 0, id, FALSE, "none", Absent)
  /\ UNCHANGED <<userKey, apiToken, enabled, alive, clock, calls, netRequests>>

markNotificationAsRead(id, ok) ==
  /\ alive
  /\ LET i == findIndex(notifications, id) IN
     IF i # 0
     THEN /\ notifications' = [notifications EXCEPT ![i].read = TRUE]
          /\ file' \in saveNotifications(notifications', ok)
          /\ lastOp' = Op("markRead", 0, id, TRUE, SavedAs(ok), Present(notifications'[i]))
     ELSE /\ ok
          /\ UNCHANGED <<notifications, file>>
          /\ lastOp' = Op("markRead", 0, id, FALSE, "none", Absent)
  /\ UNCHANGED <<userKey, apiToken, enabled, alive, clock, calls, netRequests>>

\* mutant: the file is written whether or not the id was found
deleteNotificationAlwaysSaves(id, ok) ==
  /\ alive
  /\ LET i == findIndex(notifications, id) IN
       /\ notifications' = IF i # 0 THEN RemoveAt(notifications, i) ELSE notifications
       /\ file' \in saveNotifications(notifications', ok)
       /\ lastOp' = Op("delete", 0, id, i # 0, SavedAs(ok), Absent)
  /\ UNCHANGED <<userKey, apiToken, enabled, alive, clock, calls, netRequests>>

deleteNotification(id, ok) ==
  /\ alive
  /\ LET i == findIndex(notifications, id) IN
     IF i # 0
     THEN /\ notifications' = RemoveAt(notifications, i)
          /\ file' \in saveNotifications(notifications', ok)
          /\ lastOp' = Op("delete", 0, id, TRUE, SavedAs(ok), Absent)
     ELSE /\ ok
          /\ UNCHANGED <<notifications, file>>
          /\ lastOp' = Op("delete", 0, id, FALSE, "none", Absent)
  /\ UNCHANGED <<userKey, apiToken, enabled, alive, clock, calls, netRequests>>

clearAllNotifications(ok) ==
  /\ alive
  /\ notifications' = <<>>
  /\ file' \in saveNotifications(notifications', ok)
  /\ lastOp' = Op("clear", 0, <<>>, TRUE, SavedAs(ok), Absent)
  /\ UNCHANGED <<userKey, apiToken, enabled, alive, clock, calls, netRequests>>

\* The process is started, or started again after it died: the constructor
\* makes sure the file is there and loads the ledger from it.
Restart ==
  /\ ~alive
  /\ \E made \in constructor(file) :
       /\ alive' = ~made.raises
       /\ file' = made.file
       /\ notifications' = made.notifications
  /\ lastOp' = NoOp
  /\ UNCHANGED <<userKey, apiToken, enabled, clock, calls, netRequests>>

Tick ==
  /\ clock < MaxClock
  /\ clock' = clock + 1
  /\ UNCHANGED <<userKey, apiToken, enabled, alive, notifications, file,
                 calls, netRequests, lastOp>>

\* ------------------------------------------------- the client: send
\* Strings that end up in the request are sequences of pieces of text.
Text(s) == IF s = "" THEN <<>> ELSE <<s>>
XXXXX == <<"XXXXX">>

\* s.indexOf(pat) from position i on, 1-based; 0 when pat does not occur
RECURSIVE IndexOf(_, _, _)
IndexOf(s, pat, i) ==
  IF i + Len(pat) - 1 > Len(s) THEN 0
  ELSE IF SubSeq(s, i, i + Len(pat) - 1) = pat THEN i
  ELSE IndexOf(s, pat, i + 1)

includes(s, pat) == IndexOf(s, pat, 1) # 0

\* String.prototype.replace with a string pattern: the first occurrence only
replace(s, pat, rep) ==
  LET i == IndexOf(s, pat, 1) IN
    IF i = 0 THEN s
    ELSE SubSeq(s, 1, i - 1) \o rep \o SubSeq(s, i + Len(pat), Len(s))

\* An object is the sequence of its <<key, value>> pairs, in insertion order.
Has(obj, k) == \E i \in 1..Len(obj) : obj[i][1] = k
Put(obj, k, v) ==
  IF Has(obj, k)
  THEN [i \in 1..Len(obj) |-> IF obj[i][1] = k THEN <<k, v>> ELSE obj[i]]
  ELSE Append(obj, <<k, v>>)

RECURSIVE Spread(_, _)
\* {...obj, ...more}
Spread(obj, more) ==
  IF more = <<>> THEN obj
  ELSE Spread(Put(obj, more[1][1], more[1][2]), Tail(more))

RECURSIVE PutMissing(_, _)
PutMissing(obj, defaults) ==
  IF defaults = <<>> THEN obj
  ELSE PutMissing(IF Has(obj, defaults[1][1]) THEN obj
                  ELSE Append(obj, defaults[1]), Tail(defaults))

\* The values of a payload: strings (sequences of pieces of text), numbers,
\* and the ImageFile objects a file may be given as.
Str(text) == [type |-> "string", text |-> text, n |-> 0, mime |-> Absent]
Num(k) == [type |-> "number", text |-> <<>>, n |-> k, mime |-> Absent]
Image(name, mime) == [type |-> "object", text |-> <<name>>, n |-> 0, mime |-> mime]

\* obj[k], for a key obj has
Get(obj, k) == obj[CHOOSE i \in 1..Len(obj) : obj[i][1] = k][2]

\* const { file, ...requestData } = obj
Without(obj, k) == SelectSeq(obj, LAMBDA e : e[1] # k)

setDefaults(payload) ==
  PutMissing(payload,
             << <<"device", Str(<<>>)>>, <<"title", Str(<<>>)>>, <<"url", Str(<<>>)>>,
                <<"url_title", Str(<<>>)>>, <<"sound", Str(<<>>)>>,
                <<"priority", Num(0)>>, <<"timestamp", Num(0)>> >>)

\* Number.prototype.toString() as text: the decimal digits as characters
Digits(k) ==
  LET d == DecimalString(k)
  IN [i \in 1..Len(d) |-> <<"0", "1", "2", "3", "4", "5", "6", "7", "8", "9">>[d[i] + 1]]

\* mutant: a value is written only when it is truthy, so the number 0 is not
stringifyPrimitiveTruthy(v) ==
  IF v.type = "number" THEN (IF v.n = 0 THEN <<>> ELSE Digits(v.n))
  ELSE IF v.type = "string" THEN v.text
  ELSE <<>>

\* querystring's stringifyPrimitive: a string as it is, a number in decimal,
\* an object as the empty string
stringifyPrimitive(v) ==
  IF v.type = "number" THEN Digits(v.n)
  ELSE IF v.type = "string" THEN v.text
  ELSE <<>>

\* querystring's escape: the characters that are not unreserved are
\* percent-encoded, letters and digits stay
escape(text) ==
  [i \in 1..Len(text) |->
     CASE text[i] = " " -> "%20"
       [] text[i] = "&" -> "%26"
       [] text[i] = "=" -> "%3D"
       [] text[i] = "+" -> "%2B"
       [] OTHER -> text[i]]

\* querystring's unescape in parse: a plus sign is a space, and the
\* percent-encoded characters are decoded
unescape(text) ==
  [i \in 1..Len(text) |->
     CASE text[i] \in {"%20", "+"} -> " "
       [] text[i] = "%26" -> "&"
       [] text[i] = "%3D" -> "="
       [] text[i] = "%2B" -> "+"
       [] OTHER -> text[i]]

RECURSIVE stringify(_)
\* querystring.stringify: key=value pairs joined by &
stringify(obj) ==
  IF obj = <<>> THEN <<>>
  ELSE <<obj[1][1], "=">> \o escape(stringifyPrimitive(obj[1][2]))
         \o (IF Len(obj) = 1 THEN <<>> ELSE <<"&">> \o stringify(Tail(obj)))

RECURSIVE parseQuery(_)
\* querystring.parse: the string is split at every &, each piece at its first
\* =, and key and value are unescaped.  (No key occurs twice in a string that
\* stringify made of an object.)
parseQuery(str) ==
  IF str = <<>> THEN <<>>
  ELSE LET a == IndexOf(str, <<"&">>, 1)
           piece == IF a = 0 THEN str ELSE SubSeq(str, 1, a - 1)
           rest == IF a = 0 THEN <<>> ELSE SubSeq(str, a + 1, Len(str))
           e == IndexOf(piece, <<"=">>, 1)
           key == IF e = 0 THEN piece ELSE SubSeq(piece, 1, e - 1)
           value == IF e = 0 THEN <<>> ELSE SubSeq(piece, e + 1, Len(piece))
       IN << <<unescape(key)[1], unescape(value)>> >> \o parseQuery(rest)

\* { token: this.token, user: this.user, ...form } without its file
requestData(token, user, payload) ==
  Without(Spread(<< <<"token", Str(token)>>, <<"user", Str(user)>> >>,
                 setDefaults(payload)), "file")

\* reqStr of send
reqStr(token, user, payload) == stringify(requestData(token, user, payload))

\* what send prints when this.debug is set
DebugLine(token, user, payload) ==
  replace(replace(reqStr(token, user, payload), token, XXXXX), user, XXXXX)

\* loadImage(filePath): the name is the last segment of the path; the content
\* is read from the file, which is taken to be there
loadImage(filePath) == Image(filePath[Len(filePath)], Absent)

\* typeof form.file === "string" ? this.loadImage(form.file) : form.file
imageOf(form) ==
  IF ~Has(form, "file") THEN Absent
  ELSE IF Get(form, "file").type = "string"
       THEN Present(loadImage(Get(form, "file").text))
       ELSE Present(Get(form, "file"))

\* this.boundary: "--" and a random string
boundary == <<"--", "1f9c">>

\* The body is a sequence of lines, each a sequence of pieces of text and
\* each ended by CRLF.
Delimiter(b) == <<"--">> \o b
Disposition(key) == <<"Content-Disposition: form-data; name=\"", key, "\"">>
AttachmentDisposition(name) ==
  <<"Content-Disposition: form-data; name=\"attachment\"; filename=\"", name, "\"">>
ContentType(mime) == <<"Content-Type: ", mime>>
CloseDelimiter(b) == <<"--">> \o b \o <<"--">>

RECURSIVE FieldParts(_, _)
\* the loop of buildMultipartForm over the entries of the parsed string
FieldParts(parsed, b) ==
  IF parsed = <<>> THEN <<>>
  ELSE (IF parsed[1][2] # <<>>
        THEN <<Delimiter(b), Disposition(parsed[1][1]), <<>>, parsed[1][2]>>
        ELSE <<>>)
       \o FieldParts(Tail(parsed), b)

\* buildMultipartForm(reqStr, boundary, image), lines 142-186
buildMultipartForm(str, b, image) ==
  LET fields == FieldParts(parseQuery(str), b)
  IN IF IsPresent(image)
     THEN fields
            \o <<Delimiter(b), AttachmentDisposition(image[1].text[1]),
                 ContentType(IF IsPresent(image[1].mime) THEN image[1].mime[1]
                             ELSE "application/octet-stream"),
                 <<>>, <<>>>>
            \o <<<<"data of ", image[1].text[1]>>, CloseDelimiter(b)>>
     ELSE (IF fields = <<>> THEN <<<<>>>> ELSE fields) \o <<CloseDelimiter(b)>>

MessageTexts == {<<"hi">>, <<"key">>, <<"key", " ", "key">>}
Payloads ==
  { << <<"message", Str(m)>> >> : m \in MessageTexts }
    \cup { << <<"message", Str(m)>>, <<"token", Str(t)>> >> :
             m \in MessageTexts, t \in {<<"key">>, <<"other">>} }

\* Payloads for the form: fields left out, empty, zero, with characters that
\* querystring escapes, and a file given as a path or as an ImageFile.
FormPayloads ==
  { << <<"message", Str(m)>>, <<"title", Str(t)>>, <<"priority", Num(k)>> >> :
      m \in {<<"a", "&", "b", "=", "1", "+", "1">>, <<"hi", " ", "there">>},
      t \in {<<>>, <<"Backup">>}, k \in {0, 1} }
    \cup { << <<"message", Str(<<"hi">>)>>, <<"file", f>> >> :
             f \in {Str(<<"shots", "/", "shot.png">>), Image("shot.png", Absent),
                    Image("shot.png", Present("image/png"))} }
    \cup { << <<"message", Str(<<>>)>>, <<"timestamp", Num(0)>> >> }

\* PushoverService.API_URL
API_URL == Url("https", "api.pushover.net", "")

\* url.parse: the protocol is the scheme with its colon, host is the hostname
\* with the port when there is one
parseUrl(u) ==
  [protocol |-> IF u.scheme = "https" THEN "https:" ELSE "http:",
   hostname |-> u.hostname,
   host |-> IF u.port = "" THEN <<u.hostname>> ELSE <<u.hostname, ":", u.port>>]

\* this.httpOptions?.proxy, truthy
HasProxy(httpOpts) == httpOpts # Absent /\ IsPresent(httpOpts[1].proxy)

\* The options of the request, lines 304-331: the parsed API_URL, over it the
\* keys of httpOptions other than proxy, over that the hostname and the
\* protocol of the proxy URL, with a Host header naming the gateway.
requestOptions(httpOpts) ==
  LET parsedUrl == parseUrl(API_URL)
      base == [protocol |-> parsedUrl.protocol, hostname |-> parsedUrl.hostname,
               Host |-> Absent]
      copied == IF httpOpts # Absent /\ IsPresent(httpOpts[1].protocol)
                THEN [base EXCEPT !.protocol = httpOpts[1].protocol[1]]
                ELSE base
  IN IF HasProxy(httpOpts)
     THEN LET proxyUrl == parseUrl(httpOpts[1].proxy[1])
          IN [copied EXCEPT !.hostname = proxyUrl.hostname,
                            !.protocol = proxyUrl.protocol,
                            !.Host = Present(parsedUrl.host)]
     ELSE copied

\* lines 332-335: httpRequest or httpsRequest
requester(options, httpOpts) ==
  IF options.protocol = "http:" \/ HasProxy(httpOpts) THEN "http" ELSE "https"

\* The request function of node:http takes only "http:" as options.protocol
\* and that of node:https only "https:"; given another they throw
\* ERR_INVALID_PROTOCOL.
RequestThrows(req, options) ==
  options.protocol # (IF req = "http" THEN "http:" ELSE "https:")

\* send throws before anything is written
SendThrows ==
  LET options == requestOptions(httpOptions)
  IN RequestThrows(requester(options, httpOptions), options)

\* send up to req.end(): the request is made, printed when debugging, and
\* written
Transmit(payload) ==
  LET options == requestOptions(httpOptions)
      req == requester(options, httpOptions)
  IN IF RequestThrows(req, options)
     THEN /\ wire' = [requester |-> req, hostname |-> options.hostname,
                      Host |-> options.Host, written |-> FALSE,
                      payload |-> payload, body |-> <<>>]
          /\ UNCHANGED <<netRequests, logged>>
     ELSE /\ netRequests' = netRequests + 1
          /\ logged' = IF debug
                       THEN Present(DebugLine(Text(apiToken), Text(userKey), payload))
                       ELSE logged
          /\ wire' = [requester |-> req, hostname |-> options.hostname,
                      Host |-> options.Host, written |-> TRUE, payload |-> payload,
                      body |-> buildMultipartForm(
                                 reqStr(Text(apiToken), Text(userKey), payload),
                                 boundary, imageOf(setDefaults(payload)))]

\* send(payload), called without a callback
send(payload) ==
  /\ alive
  /\ client.pc = "idle"
  /\ Transmit(payload)
  /\ client' = [client EXCEPT !.op = "send",
                              !.pc = IF SendThrows THEN "threw" ELSE "pending"]
  /\ UNCHANGED <<userKey, apiToken, enabled, alive, clock, notifications, file,
                 calls, lastOp, opts, sounds, responses, lastReply>>

\* sendNotification(message) up to the promise it returns
sendNotification(message) ==
  /\ alive
  /\ client.pc = "idle"
  /\ IF ~enabled
     THEN /\ client' = [client EXCEPT !.op = "sendNotification", !.pc = "resolved",
                                      !.value = null]
          /\ UNCHANGED <<netRequests, logged, wire>>
     ELSE /\ Transmit(message)
          /\ client' = [client EXCEPT
                          !.op = "sendNotification",
                          \* what send throws inside the executor rejects the promise
                          !.pc = IF SendThrows THEN "rejected" ELSE "pending"]
  /\ UNCHANGED <<userKey, apiToken, enabled, alive, clock, notifications, file,
                 calls, lastOp, opts, sounds, responses, lastReply>>

\* The gateway exchange of the client call ends with outcome: the listeners of
\* send run, and with them the callback of sendNotification.
ExchangeEnds(outcome) ==
  /\ alive
  /\ client.pc = "pending"
  /\ client.op \in {"send", "sendNotification"}
  /\ LET s == IF client.op = "sendNotification" THEN SendCompletes(outcome)
              ELSE IF outcome.kind = "response"
                      /\ handleErrors(outcome.body, onerror) = "throw"
                   THEN [settle |-> "uncaught", value |-> null]
                   ELSE [settle |-> "none", value |-> null]
     IN /\ client' = [client EXCEPT
                        !.pc = CASE s.settle = "uncaught" -> "uncaught"
                                 [] s.settle = "resolve" -> "resolved"
                                 [] s.settle = "reject" -> "rejected"
                                 [] OTHER -> "ended",
                        !.value = s.value,
                        !.outcome = outcome,
                        !.reported =
                          IF outcome.kind = "response"
                             /\ handleErrors(outcome.body, onerror) = "onerror"
                          THEN <<ErrorArg(outcome.body)>>
                          ELSE <<>>]
        /\ alive' = (s.settle # "uncaught")
  /\ UNCHANGED <<userKey, apiToken, enabled, clock, notifications, file,
                 calls, netRequests, lastOp, opts, logged, wire, sounds, responses,
                 lastReply>>

\* ------------------------------------------- the client: updateSounds
\* The body of a response to the sounds request: no JSON, the JSON value null,
\* or a JSON object with an optional errors array and an optional sounds map.
SoundBody(kind, errors, snds) == [kind |-> kind, errors |-> errors, sounds |-> snds]
NewSounds == {<<"pushover", "Pushover (default)">>, <<"vibrate", "Vibrate Only">>}
SoundBodies ==
  {SoundBody("garbage", Absent, Absent), SoundBody("null", Absent, Absent),
   SoundBody("object", Absent, Absent),
   SoundBody("object", Absent, Present(NewSounds)),
   SoundBody("object", Present(<<"invalid token">>), Absent),
   SoundBody("object", Present(<<>>), Absent)}
SoundOutcomes ==
  {[kind |-> "error", body |-> SoundBody("garbage", Absent, Absent)]}
    \cup {[kind |-> "response", body |-> b] : b \in SoundBodies}

\* updateSounds up to req.end(); it is called by the constructor and by a
\* daily timer when opts.update_sounds is set
updateSounds ==
  /\ alive
  /\ client.pc \in {"idle", "ended"}
  /\ netRequests < MaxRefreshes
  /\ netRequests' = netRequests + 1
  /\ client' = [IdleClient EXCEPT !.op = "updateSounds", !.pc = "pending"]
  /\ UNCHANGED <<userKey, apiToken, enabled, alive, clock, notifications, file,
                 calls, lastOp, opts, logged, wire, sounds, responses, lastReply>>

\* The try block of the 'end' listener, for a body that parsed: handleErrors
\* (h is what it did), then this.sounds = json.sounds.  An exception, thrown by
\* handleErrors or by reading a property of null, skips the assignment.
AssignSounds(body, h) ==
  IF h = "throw" \/ body.kind = "null" THEN sounds ELSE body.sounds

\* The exchange of updateSounds ends with outcome: its listeners run.
SoundsArrive(outcome) ==
  /\ alive
  /\ client.op = "updateSounds"
  /\ client.pc = "pending"
  /\ LET body == outcome.body
         h == handleErrors(body, onerror)
     IN IF outcome.kind = "error" \/ ParseThrows(body)
        THEN \* this.onerror?.(err), or the catch block: handleErrors of a
             \* string that is no JSON
             /\ UNCHANGED sounds
             /\ client' = [client EXCEPT
                             !.pc = "ended", !.outcome = outcome,
                             !.reported = IF onerror THEN <<Present("SyntaxError")>>
                                          ELSE <<>>]
        ELSE /\ sounds' = AssignSounds(body, h)
             /\ client' = [client EXCEPT
                             !.pc = "ended", !.outcome = outcome,
                             !.reported =
                               IF h = "onerror" THEN <<ErrorArg(body)>>
                               ELSE IF onerror /\ (h = "throw" \/ body.kind = "null")
                                    THEN <<Present("SyntaxError")>>
                                    ELSE <<>>]
  /\ UNCHANGED <<userKey, apiToken, enabled, alive, clock, notifications, file,
                 calls, netRequests, lastOp, opts, logged, wire, responses,
                 lastReply>>

\* ------------------------------------------------------ the route layer
\* res.status(status).json(body)
Reply(status, body) == [status |-> status, body |-> body]

\* A field of req.body: absent, the empty string, or a value.
FieldOf(values) == {Absent, Present("")} \cup {Present(v) : v \in values}

\* mutant: a field passes when it is there, empty or not
TruthyPresent(field) == IsPresent(field)

\* JavaScript's truthiness of a field of req.body
Truthy(field) == IsPresent(field) /\ field[1] # ""

\* handleCreateNotification up to its return: 400 for a missing field, or the
\* call of createNotification, whose promise resolves within the same section
\* when nothing is awaited.
handleCreateNotification(c, title, message, recipient, d, ok) ==
  IF ~Truthy(title) \/ ~Truthy(message) \/ ~Truthy(recipient)
  THEN /\ alive
       /\ calls[c].pc = "idle"
       /\ \A k \in Calls : k < c => calls[k].pc # "idle"
       /\ d = 0 /\ ok
       /\ calls' = [calls EXCEPT ![c].pc = "refused"]
       /\ responses' = [responses EXCEPT ![c] = Append(@, Reply(400, Absent))]
       /\ UNCHANGED <<userKey, apiToken, enabled, alive, clock, notifications, file,
                      netRequests, lastOp, opts, client, logged, wire, sounds, lastReply>>
  ELSE /\ createNotification(c, title[1], message[1], recipient[1], d, ok)
       /\ responses' = IF calls'[c].pc = "done"
                       THEN [responses EXCEPT ![c] = Append(@, Reply(201, calls'[c].n))]
                       ELSE responses
       /\ UNCHANGED <<opts, client, logged, wire, sounds, lastReply>>

\* The gateway exchange of request c ends: the rest of createNotification
\* runs and, when it returns, the .then of handleCreateNotification answers.
handleCreateSettles(c, outcome, ok) ==
  /\ GatewayResponds(c, outcome, ok)
  /\ responses' = IF calls'[c].pc = "done"
                  THEN [responses EXCEPT ![c] = Append(@, Reply(201, calls'[c].n))]
                  ELSE responses
  /\ UNCHANGED <<opts, client, logged, wire, sounds, lastReply>>

handleGetNotifications(recipient) ==
  /\ alive
  /\ lastReply' = [route |-> "list", id |-> <<>>, sent |-> <<Reply(200, Absent)>>,
                   list |-> getNotifications(notifications, recipient)]
  /\ UNCHANGED <<userKey, apiToken, enabled, alive, clock, notifications, file,
                 calls, netRequests, lastOp, opts, client, logged, wire, sounds, responses>>

handleGetNotification(id) ==
  /\ alive
  /\ LET n == getNotificationById(notifications, id) IN
       lastReply' = [route |-> "get", id |-> id, list |-> <<>>,
                     sent |-> <<IF IsPresent(n) THEN Reply(200, n)
                                ELSE Reply(404, Absent)>>]
  /\ UNCHANGED <<userKey, apiToken, enabled, alive, clock, notifications, file,
                 calls, netRequests, lastOp, opts, client, logged, wire, sounds, responses>>

handleUpdateNotificationStatus(id, ok) ==
  /\ markNotificationAsRead(id, ok)
  /\ lastReply' = [route |-> "markRead", id |-> id, list |-> <<>>,
                   sent |-> <<IF lastOp'.found THEN Reply(200, lastOp'.ret)
                              ELSE Reply(404, Absent)>>]
  /\ UNCHANGED <<opts, client, logged, wire, sounds, responses>>

handleDeleteNotification(id, ok) ==
  /\ deleteNotification(id, ok)
  /\ lastReply' = [route |-> "delete", id |-> id, list |-> <<>>,
                   sent |-> <<IF lastOp'.found THEN Reply(204, Absent)
                              ELSE Reply(404, Absent)>>]
  /\ UNCHANGED <<opts, client, logged, wire, sounds, responses>>

\* ------------------------------------------------------ specifications
\* Spec: every operation, MaxCalls createNotification calls.
Next ==
  \/ \E c \in Calls, t \in Titles, m \in Messages, r \in Recipients,
        d \in {0, 1}, ok \in BOOLEAN :
       createNotification(c, t, m, r, d, ok) /\ UNCHANGED apiVars
  \/ \E c \in Calls, o \in Outcomes, ok \in BOOLEAN : GatewayResponds(c, o, ok) /\ UNCHANGED apiVars
  \/ \E id \in Ids, ok \in BOOLEAN : markNotificationAsRead(id, ok) /\ UNCHANGED apiVars
  \/ \E id \in Ids, ok \in BOOLEAN : deleteNotification(id, ok) /\ UNCHANGED apiVars
  \/ \E ok \in BOOLEAN : clearAllNotifications(ok) /\ UNCHANGED apiVars
  \/ Restart /\ UNCHANGED apiVars
  \/ Tick /\ UNCHANGED apiVars

Spec == Init /\ [][Next]_vars

\* SpecSolo: every operation, SoloCalls createNotification calls, one recipient.
NextSolo ==
  \/ \E c \in 1..SoloCalls, t \in Titles, m \in Messages, d \in {0, 1}, ok \in BOOLEAN :
       createNotification(c, t, m, "ops-team", d, ok) /\ UNCHANGED apiVars
  \/ \E c \in 1..SoloCalls, o \in Outcomes, ok \in BOOLEAN : GatewayResponds(c, o, ok) /\ UNCHANGED apiVars
  \/ \E id \in Ids, ok \in BOOLEAN : markNotificationAsRead(id, ok) /\ UNCHANGED apiVars
  \/ \E id \in Ids, ok \in BOOLEAN : deleteNotification(id, ok) /\ UNCHANGED apiVars
  \/ \E ok \in BOOLEAN : clearAllNotifications(ok) /\ UNCHANGED apiVars
  \/ Restart /\ UNCHANGED apiVars
  \/ Tick /\ UNCHANGED apiVars

SpecSolo == Init /\ [][NextSolo]_vars

\* SpecList: the ledgers that creations, overlapping or not, and deletions
\* build, every file write succeeding and every exchange ending in a transport
\* error or an accepted delivery.
ListOutcomes ==
  {[kind |-> "error", body |-> EmptyBody],
   [kind |-> "response", body |-> Body("object", Absent, Absent)]}

NextList ==
  \/ \E c \in Calls, t \in Titles, m \in Messages, r \in Recipients, d \in {0, 1} :
       createNotification(c, t, m, r, d, TRUE) /\ UNCHANGED apiVars
  \/ \E c \in Calls, o \in ListOutcomes : GatewayResponds(c, o, TRUE) /\ UNCHANGED apiVars
  \/ \E id \in Ids : markNotificationAsRead(id, TRUE) /\ UNCHANGED apiVars
  \/ \E id \in Ids : deleteNotification(id, TRUE) /\ UNCHANGED apiVars
  \/ clearAllNotifications(TRUE) /\ UNCHANGED apiVars
  \/ Tick /\ UNCHANGED apiVars

SpecList == Init /\ [][NextList]_vars

\* SpecBoot: the service is started on whatever is at the path of its file,
\* and then runs every operation, SoloCalls createNotification calls, every
\* exchange ending in a transport error or an accepted delivery.  On a
\* directory no write succeeds.
NextBoot ==
  \/ \E c \in 1..SoloCalls, t \in Titles, m \in Messages, ok \in BOOLEAN :
       /\ ok => file # Directory
       /\ createNotification(c, t, m, "ops-team", 0, ok) /\ UNCHANGED apiVars
  \/ \E c \in 1..SoloCalls, o \in ListOutcomes, ok \in BOOLEAN :
       /\ ok => file # Directory
       /\ GatewayResponds(c, o, ok) /\ UNCHANGED apiVars
  \/ \E id \in Ids \cup {PriorRecord.id}, ok \in BOOLEAN :
       /\ ok => file # Directory
       /\ markNotificationAsRead(id, ok) /\ UNCHANGED apiVars
  \/ \E id \in Ids \cup {PriorRecord.id}, ok \in BOOLEAN :
       /\ ok => file # Directory
       /\ deleteNotification(id, ok) /\ UNCHANGED apiVars
  \/ \E ok \in BOOLEAN :
       /\ ok => file # Directory
       /\ clearAllNotifications(ok) /\ UNCHANGED apiVars
  \/ Restart /\ UNCHANGED apiVars
  \/ Tick /\ UNCHANGED apiVars

SpecBoot == InitBoot /\ [][NextBoot]_vars

\* SpecClient: one direct call of send or sendNotification on a client with
\* any credentials, debugging or not.
NextClient ==
  \/ \E p \in Payloads : send(p)
  \/ \E p \in Payloads : sendNotification(p)
  \/ \E o \in Outcomes : ExchangeEnds(o)

SpecClient == InitClient /\ [][NextClient]_vars

\* SpecForm: send on a PushoverService, with the payloads that exercise the
\* form encoder.
NextForm ==
  \/ \E p \in FormPayloads : send(p)
  \/ \E o \in Outcomes : ExchangeEnds(o)

SpecForm == Init /\ [][NextForm]_vars

\* SpecSounds: a client of src/unnamed/part_003 constructed with update_sounds
\* refreshes its sound catalog, MaxRefreshes times.
NextSounds ==
  \/ updateSounds
  \/ \E o \in SoundOutcomes : SoundsArrive(o)

SpecSounds == InitClient /\ [][NextSounds]_vars

\* SpecRoutes: the requests that reach the handlers of the route layer,
\* SoloCalls of them POST /notifications, every file write succeeding and the
\* two clock reads of a creation falling in the same millisecond.
NextRoutes ==
  \/ \E c \in 1..SoloCalls, t \in FieldOf(Titles), m \in FieldOf(Messages),
        r \in FieldOf({"ops-team"}) :
       handleCreateNotification(c, t, m, r, 0, TRUE)
  \/ \E c \in 1..SoloCalls, o \in Outcomes : handleCreateSettles(c, o, TRUE)
  \/ \E r \in Recipients : handleGetNotifications(r)
  \/ \E id \in Ids : handleGetNotification(id)
  \/ \E id \in Ids : handleUpdateNotificationStatus(id, TRUE)
  \/ \E id \in Ids : handleDeleteNotification(id, TRUE)
  \/ Tick /\ UNCHANGED apiVars

SpecRoutes == Init /\ [][NextRoutes]_vars

\* ------------------------------------------------------------ properties
\* The gateway accepted the delivery: a response of the protocol's shape
\* without errors.
Accepted(o) ==
  o.kind = "response" /\ o.body.kind = "object" /\ ~IsPresent(o.body.errors)

\* The delivery failed: transport failure, a response that is no JSON, or a
\* response with a non-empty errors array.
DeliveryFailed(o) ==
  \/ o.kind = "error"
  \/ o.kind = "response" /\ o.body.kind = "garbage"
  \/ o.kind = "response" /\ o.body.kind = "object" /\ IsPresent(o.body.errors)
       /\ o.body.errors[1] # <<>>

InLedger(n) == \E i \in 1..Len(notifications) : notifications[i] = n

OnDisk(n) == \E i \in 1..Len(file) : ParseRecord(file[i]) = n

\* C1: every createNotification call whose gateway exchange has ended (or
\* that needed none) has returned a record, and when it returns the record is
\* in the ledger and getById finds a record under its id.
C1_AlwaysPersist ==
  /\ \A c \in Calls :
       (calls[c].pc # "idle" /\ (~enabled \/ calls[c].outcome.kind # "none"))
         => calls[c].pc = "done"
  /\ lastOp.op = "create" =>
       /\ InLedger(lastOp.ret[1])
       /\ IsPresent(getNotificationById(notifications, lastOp.id))

\* C2: on an enabled client a failed delivery is caught inside
\* createNotification: the call returns a record with pushoverSent = false and
\* pushoverReceipt = null, and no error escapes uncaught.
C2_FailureCaught ==
  \A c \in Calls :
    (enabled /\ DeliveryFailed(calls[c].outcome)) =>
       /\ calls[c].pc = "done"
       /\ calls[c].n[1].pushoverSent = FALSE
       /\ calls[c].n[1].pushoverReceipt = null

C4_UniqueIds ==
  \A i, j \in 1..Len(notifications) :
    i # j => notifications[i].id # notifications[j].id

\* C5: with userKey or apiToken empty, every record createNotification
\* returned or put in the ledger has pushoverSent = false and
\* pushoverReceipt = null, and no request went to the gateway.
C5_DisabledNoDelivery ==
  (userKey = "" \/ apiToken = "") =>
    /\ netRequests = 0
    /\ \A c \in Calls : calls[c].pc = "done" =>
         calls[c].n[1].pushoverSent = FALSE /\ calls[c].n[1].pushoverReceipt = null
    /\ \A i \in 1..Len(notifications) :
         notifications[i].pushoverSent = FALSE /\ notifications[i].pushoverReceipt = null

\* C5 witness: a disabled client has created a record.
C5_Witness ==
  /\ (userKey = "" \/ apiToken = "")
  /\ \E c \in Calls : calls[c].pc = "done" /\ InLedger(calls[c].n[1])

\* C6: a created record has pushoverSent = true exactly when the gateway
\* accepted its delivery; after a transport error, an empty or unparseable
\* body or a response with errors it has pushoverSent = false.
C6_SentIffDelivered ==
  \A c \in Calls :
    calls[c].pc = "done" =>
      (calls[c].n[1].pushoverSent <=> Accepted(calls[c].outcome))

\* C7: every record of the ledger and every record createNotification
\* returned with pushoverSent = false has pushoverReceipt = null.
C7_UnsentHasNoReceipt ==
  /\ \A i \in 1..Len(notifications) :
       notifications[i].pushoverSent = FALSE => notifications[i].pushoverReceipt = null
  /\ \A c \in Calls : calls[c].pc = "done" =>
       (calls[c].n[1].pushoverSent = FALSE => calls[c].n[1].pushoverReceipt = null)

\* C7 witness: on an enabled client the ledger holds the record of a call
\* whose delivery failed, with pushoverSent = false.
C7_Witness ==
  /\ enabled
  /\ \E c \in Calls :
       /\ calls[c].pc = "done"
       /\ DeliveryFailed(calls[c].outcome)
       /\ calls[c].n[1].pushoverSent = FALSE
       /\ InLedger(calls[c].n[1])

Count(seq, x) == Cardinality({i \in 1..Len(seq) : seq[i] = x})

\* C8: for every recipient r, list(r) holds exactly the ledger records whose
\* recipient is r, each as often as the ledger does, by createdAt descending.
C8_ListFilteredSorted ==
  \A r \in Recipients :
    LET l == getNotifications(notifications, r) IN
      /\ \A j \in 1..Len(l) : l[j].recipient = r /\ InLedger(l[j])
      /\ \A i \in 1..Len(notifications) :
           Count(l, notifications[i]) =
             IF notifications[i].recipient = r
             THEN Count(notifications, notifications[i]) ELSE 0
      /\ \A j \in 1..(Len(l) - 1) :
           getTime(l[j].createdAt) >= getTime(l[j + 1].createdAt)

\* C8 witness: the ledger holds two records of one recipient, the older one
\* first, so that list has to reorder them.
C8_Witness ==
  \E i, j \in 1..Len(notifications) :
    /\ i < j
    /\ notifications[i].recipient = notifications[j].recipient
    /\ getTime(notifications[i].createdAt) < getTime(notifications[j].createdAt)

\* C9: after delete(id) has returned success, getById(id) finds nothing, until
\* the next ledger operation.
C9_DeletedNotFound ==
  (lastOp.op = "delete" /\ lastOp.found) =>
    ~IsPresent(getNotificationById(notifications, lastOp.id))

\* C10: delete(id) and markRead(id) on an id that is not in the ledger report
\* "not found", attempt no file write and leave ledger and file unchanged.
C10_AbsentIdNoEffect ==
  [][\A id \in Ids, ok \in BOOLEAN :
       (/\ findIndex(notifications, id) = 0
        /\ (deleteNotification(id, ok) \/ markNotificationAsRead(id, ok)))
       => /\ notifications' = notifications
          /\ file' = file
          /\ lastOp'.id = id
          /\ lastOp'.found = FALSE
          /\ lastOp'.saved = "none"
          /\ lastOp'.ret = Absent]_vars

\* C10 witness: delete or markRead has just reported "not found" on a
\* non-empty ledger that differs from the file.
C10_Witness ==
  /\ lastOp.op \in {"delete", "markRead"}
  /\ lastOp.found = FALSE
  /\ Len(notifications) > 0
  /\ file # yamlStringify(notifications)

\* C11: markRead is idempotent.  A markRead of an id right after a markRead
\* that found the same id leaves the in-memory ledger as the first call left
\* it, finds the id again and returns the same record, with read = TRUE; it
\* raises nothing.
C11_MarkReadIdempotent ==
  [][\A id \in Ids, ok \in BOOLEAN :
       (/\ markNotificationAsRead(id, ok)
        /\ lastOp.op = "markRead" /\ lastOp.found /\ lastOp.id = id)
       => /\ notifications' = notifications
          /\ lastOp'.found
          /\ lastOp'.ret = lastOp.ret
          /\ lastOp'.ret[1].read]_vars

\* a second markRead of the same id has returned
C11_Witness ==
  /\ lastOp.op = "markRead" /\ lastOp.again
  /\ IsPresent(lastOp.ret) /\ lastOp.ret[1].read

\* C12: a record starts with read = FALSE, only markRead sets the flag, and
\* no operation of the running service sets it back: every step leaves the
\* ledger as it was, appends one unread record, sets the flag of one record in
\* a markRead, removes one record, or empties the ledger.
C12_ReadOnlyRises ==
  [][alive =>
       LET old == notifications
           new == notifications'
       IN \/ new = old
          \/ /\ Len(new) = Len(old) + 1
             /\ SubSeq(new, 1, Len(old)) = old
             /\ ~new[Len(new)].read
          \/ /\ lastOp'.op = "markRead"
             /\ \E i \in 1..Len(old) : new = [old EXCEPT ![i].read = TRUE]
          \/ \E k \in 1..Len(old) : new = RemoveAt(old, k)
          \/ new = <<>>]_vars

\* a record marked read is still read after a later creation was appended
C12_Witness ==
  /\ lastOp.op = "create"
  /\ Len(notifications) = 2
  /\ notifications[1].read /\ ~notifications[2].read

ReturnedIsInLedger == IsPresent(lastOp.ret) => InLedger(lastOp.ret[1])

\* C14 (as claimed): a failed file write is absorbed.  The operation returns
\* its record, the in-memory ledger is updated, and the file keeps its previous
\* content; after a write that succeeded the file is the dump of the whole
\* in-memory ledger.
C14_FailedWriteKeepsFile ==
  /\ [][lastOp'.saved = "failed" => file' = file]_vars
  /\ [](lastOp.saved = "failed" => ReturnedIsInLedger)
  /\ [](lastOp.saved = "ok" => file = yamlStringify(notifications))

\* C14 (amended): a failed file write is absorbed.  The operation returns its
\* record, the in-memory ledger is updated (a delete has removed one record),
\* and the file is left with its previous content or cut short; after a write
\* that succeeded the file is the dump of the whole in-memory ledger.
C14_FailedWriteAbsorbed ==
  /\ [][lastOp'.saved = "failed" =>
         /\ file' \in {file, Truncated}
         /\ (lastOp'.op = "delete" /\ lastOp' # lastOp)
              => Len(notifications') = Len(notifications) - 1]_vars
  /\ [](lastOp.saved = "failed" => ReturnedIsInLedger)
  /\ [](lastOp.saved = "ok" => file = yamlStringify(notifications))

\* a markRead whose write failed returned the record, read, and the file is
\* not the dump of the ledger
C14_Witness ==
  /\ lastOp.op = "markRead" /\ lastOp.saved = "failed"
  /\ IsPresent(lastOp.ret) /\ lastOp.ret[1].read /\ InLedger(lastOp.ret[1])
  /\ file # yamlStringify(notifications)

\* C15: on an enabled client, once the gateway exchange of a sendNotification
\* call has ended the promise has settled, once; it resolved exactly when the
\* gateway accepted the delivery, then to the receipt of the response or null;
\* it rejected when the transport failed or the body could not be parsed, the
\* empty body included.
C15_SettlesByDelivery ==
  (enabled /\ client.op = "sendNotification" /\ client.outcome.kind # "none") =>
    /\ client.pc \in {"resolved", "rejected"}
    /\ (client.pc = "resolved") <=> Accepted(client.outcome)
    /\ client.pc = "resolved" => client.value = ReceiptOrNull(client.outcome.body)
    /\ (client.outcome.kind = "error" \/ ParseThrows(client.outcome.body))
         => client.pc = "rejected"

\* C16: the client is enabled exactly when userKey and apiToken are both
\* non-empty, and a disabled client issues no network request: a send or
\* sendNotification call on it has returned null without one.
C16_DisabledSendsNothing ==
  /\ enabled <=> (userKey # "" /\ apiToken # "")
  /\ ~enabled =>
       /\ netRequests = 0
       /\ client.pc # "idle" => (client.pc = "resolved" /\ client.value = null)

\* The credentials, when set, do not occur in the text.
Redacted(text) ==
  /\ apiToken # "" => ~includes(text, Text(apiToken))
  /\ userKey # "" => ~includes(text, Text(userKey))

\* C17: with debug on, the request string send prints contains neither the API
\* token nor the user key, whatever the payload.
C17_DebugLineRedacted ==
  IsPresent(logged) => Redacted(logged[1])

\* The record has a title, a message and a recipient, none of them empty.
HasRequiredFields(n) == n.title # "" /\ n.message # "" /\ n.recipient # ""

C19_CreatedWithReceipt ==
  \A c \in Calls :
    (enabled /\ Accepted(calls[c].outcome)) =>
      /\ Len(responses[c]) = 1
      /\ responses[c][1].status = 201
      /\ IsPresent(responses[c][1].body)
      /\ responses[c][1].body[1].pushoverSent
      /\ responses[c][1].body[1].pushoverReceipt # null

\* C20: each request gets exactly one response, with the status the operation
\* fixes.  POST /notifications: 400 for a missing field, 201 with the record
\* otherwise, once the request is over; get and markRead: 200 with the record,
\* or 404 when the id is not in the ledger; delete: 204, or 404.
C20_RouteStatuses ==
  /\ [](\A c \in Calls :
          calls[c].pc \notin {"idle", "awaiting"} =>
            responses[c] = IF calls[c].pc = "refused" THEN <<Reply(400, Absent)>>
                           ELSE <<Reply(201, calls[c].n)>>)
  /\ [][\A id \in Ids, ok \in BOOLEAN :
          LET n == getNotificationById(notifications, id) IN
            /\ handleGetNotification(id) =>
                 lastReply'.sent = <<IF IsPresent(n) THEN Reply(200, n)
                                     ELSE Reply(404, Absent)>>
            /\ handleUpdateNotificationStatus(id, ok) =>
                 lastReply'.sent =
                   <<IF IsPresent(n) THEN Reply(200, Present([n[1] EXCEPT !.read = TRUE]))
                     ELSE Reply(404, Absent)>>
            /\ handleDeleteNotification(id, ok) =>
                 lastReply'.sent = <<IF IsPresent(n) THEN Reply(204, Absent)
                                     ELSE Reply(404, Absent)>>]_vars

\* The fields of a record other than its read flag.
Frozen(n) == [n EXCEPT !.read = FALSE]

\* C21: a record in the ledger keeps its id, title, message, recipient,
\* createdAt, pushoverSent and pushoverReceipt through every operation of the
\* running service, and a markRead changes the read flag of the first record
\* with the id and nothing else.
C21_FieldsImmutable ==
  [][alive =>
       LET old == notifications
           new == notifications'
       IN \/ /\ Len(new) = Len(old)
             /\ \A i \in 1..Len(old) :
                  /\ Frozen(new[i]) = Frozen(old[i])
                  /\ new[i] # old[i] =>
                       /\ lastOp'.op = "markRead"
                       /\ i = findIndex(old, lastOp'.id)
          \/ /\ Len(new) = Len(old) + 1
             /\ SubSeq(new, 1, Len(old)) = old
          \/ \E k \in 1..Len(old) : new = RemoveAt(old, k)
          \/ new = <<>>]_vars

\* a markRead has marked one of two records and left the other as it was
C21_Witness ==
  /\ lastOp.op = "markRead" /\ lastOp.found
  /\ Len(notifications) = 2
  /\ \E i, j \in 1..2 : notifications[i].read /\ ~notifications[j].read

\* C22: a gateway response takes the error path exactly when its body does not
\* parse or carries a non-empty errors array; then a configured handler is
\* given the error (the first error string of the array) and the call still
\* completes, and without a handler the error is raised; a response whose
\* errors are absent or an empty array causes no error.
IsError(body) ==
  \/ ParseThrows(body)
  \/ /\ body.kind = "object"
     /\ IsPresent(body.errors)
     /\ body.errors[1] # <<>>

C22_ErrorPath ==
  (client.pc \notin {"idle", "pending"} /\ client.outcome.kind = "response") =>
    LET body == client.outcome.body
    IN /\ (IsError(body) /\ onerror) =>
            /\ client.pc \in {"ended", "resolved", "rejected"}
            /\ Len(client.reported) = 1
            /\ ~ParseThrows(body) => client.reported[1] = Present(body.errors[1][1])
       /\ (IsError(body) /\ ~ParseThrows(body) /\ ~onerror) => client.pc = "uncaught"
       /\ ~IsError(body) =>
            /\ client.pc # "uncaught"
            /\ client.reported = <<>>

\* C23: loading is fail-open.  Whatever is at the path of the file, and in
\* particular when it is missing, a directory, unreadable or no YAML sequence,
\* the constructor does not raise and then the ledger starts empty; and every
\* mutation whose write succeeds leaves in the file exactly the records held
\* in memory, whatever the file held before.
Unusable == {Missing, Directory, NotASequence}

C23_LoadFailOpen ==
  /\ [](~alive =>
          \A made \in constructor(file) :
            /\ ~made.raises
            /\ file \in Unusable => made.notifications = <<>>)
  /\ [][(~alive /\ clock' = clock) =>
          /\ alive'
          /\ file \in Unusable => notifications' = <<>>]_vars
  /\ [][(alive /\ lastOp'.saved = "ok"
            /\ (notifications' # notifications \/ file' # file)) =>
          file' = yamlStringify(notifications')]_vars

\* C23 witness: the service runs, started on a file that holds no sequence.
C23_Witness == alive /\ file = NotASequence /\ notifications = <<>>

\* C24: when the service is started, ensureDataFileExists throws if the path
\* of the file is a directory, writes an empty sequence if nothing is there
\* (unless that write fails), and leaves an existing file as it is.
C24_EnsureDataFile ==
  [][(~alive /\ clock' = clock) =>
       /\ file = Directory =>
            /\ \A e \in ensureDataFileExists(file) : e.throws
            /\ file' = file
       /\ file = Missing =>
            /\ \A e \in ensureDataFileExists(file) :
                 ~e.throws => e.file = yamlStringify(<<>>)
            /\ file' \in {yamlStringify(<<>>), Missing}
       /\ file \notin {Directory, Missing} =>
            /\ \A e \in ensureDataFileExists(file) : ~e.throws
            /\ file' = file]_vars

\* C24 witness: the service was started on a directory and runs.
C24_Witness == alive /\ file = Directory

\* C25: however createNotification calls, markRead, delete and list overlap,
\* a call that completes appends exactly its own record to the ledger as it
\* then is, a delete removes exactly the record it found, markRead rewrites
\* exactly the record it found, nothing else changes the ledger of a running
\* service, and after a write that succeeded the file holds the ledger.  So
\* when all calls have completed the ledger holds one record for each
\* completed creation that was not deleted.
Completing == {c \in Calls : calls[c].pc # "done" /\ calls'[c].pc = "done"}

C25_NoLostUpdate ==
  /\ []((alive /\ lastOp.saved = "ok") => file = yamlStringify(notifications))
  /\ [][/\ Cardinality(Completing) <= 1
        /\ \A c \in Completing :
             notifications' = Append(notifications, calls'[c].n[1])
        /\ (Completing = {} /\ alive) =>
             LET i == findIndex(notifications, lastOp'.id) IN
             \/ notifications' = notifications
             \/ /\ lastOp'.op = "delete"
                /\ i # 0
                /\ notifications' = RemoveAt(notifications, i)
             \/ /\ lastOp'.op = "markRead"
                /\ i # 0
                /\ notifications' = [notifications EXCEPT ![i].read = TRUE]
             \/ /\ lastOp'.op = "clear"
                /\ notifications' = <<>>]_vars

\* C25 witness: two calls overlapped, the one begun later completed first, and
\* both records are in the ledger.
C25_Witness ==
  /\ calls[1].pc = "done"
  /\ calls[2].pc = "done"
  /\ notifications = <<calls[2].n[1], calls[1].n[1]>>
  /\ calls[1].n[1].id # calls[2].n[1].id

\* C26: while a createNotification call waits for its gateway exchange, the
\* service still takes every other operation (markRead and delete of any id,
\* and the next createNotification call up to its own await), and the ledger
\* holds no record of the waiting call: a record equal to it is there only as
\* often as completed calls made one.
Pending(c) == calls[c].pc = "awaiting"

C26_PendingBlocksOnlyItself ==
  (alive /\ \E c \in Calls : Pending(c)) =>
    /\ \A id \in Ids :
         /\ ENABLED (markNotificationAsRead(id, TRUE) /\ UNCHANGED apiVars)
         /\ ENABLED (deleteNotification(id, TRUE) /\ UNCHANGED apiVars)
    /\ \A c \in Calls :
         (calls[c].pc = "idle" /\ \A k \in Calls : k < c => calls[k].pc # "idle") =>
           ENABLED (createNotification(c, "Backup Complete", "Nightly backup succeeded",
                                       "ops-team", 0, TRUE) /\ UNCHANGED apiVars)
    /\ \A c \in Calls :
         Pending(c) =>
           Count(notifications, calls[c].n[1])
             <= Cardinality({k \in Calls : /\ calls[k].pc = "done"
                                          /\ calls[k].n = calls[c].n})

\* C26 witness: the first call is still waiting, the second, begun after it,
\* has completed, and a markRead has since found the second call's record.
C26_Witness ==
  /\ Pending(1)
  /\ calls[2].pc = "done"
  /\ lastOp.op = "markRead"
  /\ lastOp.found
  /\ Len(notifications) = 1

\* C27: nothing is retried.  The requests written to the gateway are one for
\* each createNotification call begun on an enabled client and none on a
\* disabled one, and a request is written only by the step that begins a
\* call: never when an exchange ends, whatever its outcome, nor by any later
\* operation on the record.
Begun == {c \in Calls : calls[c].pc # "idle"}

C27_NoRetry ==
  /\ [](netRequests = IF enabled THEN Cardinality(Begun) ELSE 0)
  /\ [][netRequests' # netRequests =>
          /\ netRequests' = netRequests + 1
          /\ \E c \in Calls : calls[c].pc = "idle" /\ calls'[c].pc = "awaiting"]_vars

\* C27 witness: the delivery of the first call's record failed, the record is
\* in the ledger unsent, a markRead has found it since, and one request was
\* written in all.
C27_Witness ==
  /\ calls[1].pc = "done"
  /\ calls[1].outcome.kind = "error"
  /\ calls[2].pc = "idle"
  /\ netRequests = 1
  /\ lastOp.op = "markRead"
  /\ lastOp.found
  /\ ~notifications[1].pushoverSent

\* C30: how send makes its request depends on the configuration alone.
\* Without a proxy, the scheme of the request being https, it is made over
\* HTTPS to the gateway host.  With a proxy, whatever the scheme of the proxy
\* URL, it is made over plain HTTP to the host of the proxy, with a Host header
\* that names the gateway host, and written.
GatewayHost == "api.pushover.net"

C30_TransportSelection ==
  client.op = "send" =>
    /\ (~HasProxy(httpOptions) /\ requestOptions(httpOptions).protocol = "https:") =>
         /\ wire.requester = "https"
         /\ wire.hostname = GatewayHost
         /\ wire.written
    /\ HasProxy(httpOptions) =>
         /\ wire.requester = "http"
         /\ wire.hostname = httpOptions[1].proxy[1].hostname
         /\ wire.Host = Present(<<GatewayHost>>)
         /\ wire.written

\* C28: the body send writes holds, for each field of the request whose value
\* is not the empty string, exactly one form-data part: a delimiter line, the
\* disposition line naming the field, an empty line and the value as it was
\* given, the number 0 as "0"; for a field whose value is the empty string it
\* holds none; it holds one attachment part, with the MIME type given or else
\* application/octet-stream, exactly when the payload has a file; and its last
\* line is the closing delimiter.
NumText(k) == IF k = 0 THEN <<"0">> ELSE <<"1">>
RawValue(v) == IF v.type = "number" THEN NumText(v.n) ELSE v.text
LinesThat(body, line) == {i \in 1..Len(body) : body[i] = line}
AttachmentLines(body) ==
  {i \in 1..Len(body) :
     /\ Len(body[i]) = 3
     /\ body[i][1] = "Content-Disposition: form-data; name=\"attachment\"; filename=\""}

C28_MultipartForm ==
  wire.written =>
    LET body == wire.body
        data == requestData(Text(apiToken), Text(userKey), wire.payload)
        given == {j \in 1..Len(data) : RawValue(data[j][2]) # <<>>}
        hasFile == Has(wire.payload, "file")
    IN /\ \A j \in 1..Len(data) :
            LET at == LinesThat(body, Disposition(data[j][1]))
            IN IF j \in given
               THEN /\ Cardinality(at) = 1
                    /\ \A i \in at :
                         /\ i > 1
                         /\ body[i - 1] = Delimiter(boundary)
                         /\ body[i + 1] = <<>>
                         /\ body[i + 2] = RawValue(data[j][2])
               ELSE at = {}
       /\ Cardinality(AttachmentLines(body)) = IF hasFile THEN 1 ELSE 0
       /\ \A i \in AttachmentLines(body) :
            /\ body[i - 1] = Delimiter(boundary)
            /\ body[i + 1] \in
                 {ContentType(IF IsPresent(f.mime) THEN f.mime[1]
                              ELSE "application/octet-stream") :
                    f \in {Get(wire.payload, "file")}}
       /\ Cardinality(LinesThat(body, Delimiter(boundary)))
            = Cardinality(given) + IF hasFile THEN 1 ELSE 0
       /\ body[Len(body)] = CloseDelimiter(boundary)

\* C28 witness: a request was written whose payload gave an empty title, the
\* priority 0 and a message with characters that the query string escapes.
C28_Witness ==
  /\ wire.written
  /\ Has(wire.payload, "title")
  /\ Get(wire.payload, "title") = Str(<<>>)
  /\ Get(wire.payload, "priority") = Num(0)
  /\ Get(wire.payload, "message") = Str(<<"a", "&", "b", "=", "1", "+", "1">>)

\* C29: a refresh of the sound catalog replaces the catalog, and wholly, only
\* when the fetch succeeded: the response parsed, carries no errors and holds
\* a catalog.  After a refresh that failed (transport error, a body that is
\* no JSON, a response carrying errors), with or without an error handler, the
\* catalog is the one held before.
Fetched(o) ==
  /\ o.kind = "response"
  /\ o.body.kind = "object"
  /\ ~IsPresent(o.body.errors)
  /\ IsPresent(o.body.sounds)

RefreshFailed(o) ==
  \/ o.kind = "error"
  \/ o.body.kind = "garbage"
  \/ /\ o.body.kind = "object"
     /\ IsPresent(o.body.errors)
     /\ o.body.errors[1] # <<>>

C29_RefreshKeepsCatalog ==
  [][(client.op = "updateSounds" /\ client.pc = "pending" /\ client'.pc = "ended") =>
       /\ Fetched(client'.outcome) => sounds' = client'.outcome.body.sounds
       /\ RefreshFailed(client'.outcome) => sounds' = sounds]_vars

====
